---- MODULE Spec2Model ----
(***************************************************************************)
(* KornmoDataset (src/kornmo/kornmo.py): a holder of three lazily loaded   *)
(* tables (deliveries, grants, legacy grants) and the three views derived  *)
(* from them, together with the column filter _filter_crops.               *)
(*                                                                         *)
(* A table (pandas DataFrame) is a record                                  *)
(*     [type |-> "DataFrame", columns |-> set of names, rows |-> sequence] *)
(* whose rows are functions from the column names to values.  Column names *)
(* are strings; the letters o and a stand for the letters o-slash and      *)
(* a-ring of the source (hosthvete_areal, varhvete_areal).  Cell values    *)
(* are integers; a mean is an exact fraction [num, den] in lowest terms.   *)
(* Fractions such as fulldyrket are counted in tenths (0.4 is 4).          *)
(***************************************************************************)
EXTENDS Integers, Sequences, FiniteSets, TLC

VARIABLES
    deliveries,      \* self.deliveries: None or a table
    grants,          \* self.grants: None or a table
    legacy_grants,   \* self.legacy_grants: None or a table
    csv,             \* the three cache files: a table, or FileNotFound
    script,          \* the three fetch collaborators: a table, or ImportFails
    call,            \* the last operation called, with its arguments
    result,          \* what that call returned or raised
    log              \* the file reads and collaborator imports of that call

vars == <<deliveries, grants, legacy_grants, csv, script, call, result, log>>

----------------------------------------------------------------------------
(* Values *)

None == [type |-> "None"]
FileNotFound == [type |-> "FileNotFoundError"]
ImportFails == [type |-> "ImportError"]

DataFrame(cols, rws) == [type |-> "DataFrame", columns |-> cols, rows |-> rws]

Range(s) == {s[i] : i \in DOMAIN s}

RECURSIVE GCD(_, _)
GCD(a, b) == IF b = 0 THEN a ELSE GCD(b, a % b)

Abs(n) == IF n < 0 THEN -n ELSE n

\* The exact fraction n/d (d > 0) in lowest terms.
Fraction(n, d) ==
    LET g == GCD(Abs(n), d)
    IN  [num |-> n \div g, den |-> d \div g]

RECURSIVE SumSeq(_)
SumSeq(s) == IF s = <<>> THEN 0 ELSE s[1] + SumSeq(Tail(s))

Column(rws, c) == [i \in 1..Len(rws) |-> rws[i][c]]

----------------------------------------------------------------------------
(* The pandas operations the module uses *)

\* df.drop(columns=cols)
Drop(df, cols) ==
    LET keep == df.columns \ cols
    IN  DataFrame(keep, [i \in 1..Len(df.rows) |-> [c \in keep |-> df.rows[i][c]]])

\* df.filter(items=cols, axis=1): the listed columns that exist
FilterItems(df, cols) == Drop(df, df.columns \ cols)

\* The rows of an inner merge on the shared columns `on`: for each left row in
\* order, its matching right rows in order.
RECURSIVE MergeRows(_, _, _, _)
MergeRows(lrows, rrows, on, cols) ==
    IF lrows = <<>> THEN <<>>
    ELSE LET l == lrows[1]
             match == SelectSeq(rrows, LAMBDA r : \A c \in on : l[c] = r[c])
             joined == [i \in 1..Len(match) |->
                          [c \in cols |-> IF c \in DOMAIN l THEN l[c] ELSE match[i][c]]]
         IN  joined \o MergeRows(Tail(lrows), rrows, on, cols)

\* A plausible slip: how="cross", every left row with every right row
MergeCross(left, right) ==
    LET cols == left.columns \cup right.columns
    IN  DataFrame(cols, MergeRows(left.rows, right.rows, {}, cols))

\* left.merge(right): how="inner", on = the columns the two tables share
Merge(left, right) ==
    LET on == left.columns \cap right.columns
        cols == left.columns \cup right.columns
    IN  DataFrame(cols, MergeRows(left.rows, right.rows, on, cols))

\* df[name] = df[a] + df[b]
AddColumn(df, name, a, b) ==
    DataFrame(df.columns \cup {name},
              [i \in 1..Len(df.rows) |->
                 [c \in df.columns \cup {name} |->
                    IF c = name THEN df.rows[i][a] + df.rows[i][b] ELSE df.rows[i][c]]])

KeyOf(row, by) == [i \in 1..Len(by) |-> row[by[i]]]

\* Lexicographic order of two keys of the same length
RECURSIVE KeyLess(_, _)
KeyLess(a, b) ==
    IF a = <<>> THEN FALSE
    ELSE IF a[1] # b[1] THEN a[1] < b[1]
    ELSE KeyLess(Tail(a), Tail(b))

\* groupby sorts the group keys (sort=True is the default)
RECURSIVE SortKeys(_)
SortKeys(S) ==
    IF S = {} THEN <<>>
    ELSE LET m == CHOOSE k \in S : \A o \in S \ {k} : KeyLess(k, o)
         IN  <<m>> \o SortKeys(S \ {m})

\* One aggregation of the agg dict over the rows of a group
Aggregate(rws, c, how) ==
    CASE how = "first" -> rws[1][c]
      [] how = "sum"   -> SumSeq(Column(rws, c))
      [] how = "mean"  -> Fraction(SumSeq(Column(rws, c)), Len(rws))

\* df.groupby(by=by, as_index=False).agg(agg)
GroupByAgg(df, by, agg) ==
    LET keys == SortKeys({KeyOf(df.rows[i], by) : i \in 1..Len(df.rows)})
        cols == Range(by) \cup DOMAIN agg
        group(k) == SelectSeq(df.rows, LAMBDA r : KeyOf(r, by) = k)
        pos(c) == CHOOSE i \in 1..Len(by) : by[i] = c
    IN  DataFrame(cols,
                  [i \in 1..Len(keys) |->
                     [c \in cols |->
                        IF c \in Range(by) THEN keys[i][pos(c)]
                        ELSE Aggregate(group(keys[i]), c, agg[c])]])

----------------------------------------------------------------------------
(* _filter_crops *)

List(items) == [type |-> "list", items |-> items]

EndsWith(s, suffix) ==
    /\ Len(s) >= Len(suffix)
    /\ SubSeq(s, Len(s) - Len(suffix) + 1, Len(s)) = suffix

\* A column name that the regular expression '^.*_(sum|areal)$' matches
IsCropColumn(c) == EndsWith(c, "_sum") \/ EndsWith(c, "_areal")

\* kornmo_utils.flatmap(f, xs): the concatenation of f(x) over the items x of
\* xs; fxs is the sequence of the f(x)
RECURSIVE flatmap(_)
flatmap(fxs) ==
    IF fxs = <<>> THEN <<>> ELSE fxs[1] \o flatmap(Tail(fxs))

\* lambda x: (f'{x}_sum', f'{x}_areal') over the crops
SumAndAreal(crops) == [i \in 1..Len(crops) |-> <<crops[i] \o "_sum", crops[i] \o "_areal">>]

DefaultCrops == <<"havre", "hvete", "bygg", "rug_og_rughvete">>

\* A plausible slip: the columns to drop are the requested ones.
FilterCropsDropsRequested(frame, crops) ==
    LET crops1 == IF crops = None THEN DefaultCrops ELSE crops.items
        all_crop_cols == {c \in frame.columns : IsCropColumn(c)}
        crop_cols_to_keep == flatmap(SumAndAreal(crops1))
    IN  Drop(frame, all_crop_cols \cap Range(crop_cols_to_keep))

_filter_crops(frame, crops) ==
    LET crops1 == IF crops = None THEN DefaultCrops ELSE crops.items
        all_crop_cols == {c \in frame.columns : IsCropColumn(c)}
        crop_cols_to_keep == flatmap(SumAndAreal(crops1))
        cols_to_drop == all_crop_cols \ Range(crop_cols_to_keep)
    IN  Drop(frame, cols_to_drop)

----------------------------------------------------------------------------
(* KornmoDataset: the lazy loads *)

\* The instance: the three slots set to None by __init__
Self == [deliveries |-> deliveries, grants |-> grants, legacy_grants |-> legacy_grants]

Event(what, table) == [event |-> what, table |-> table]

ImportError(table) == [type |-> "ImportError", table |-> table]

Loaded(self, events) == [self |-> self, log |-> events, raised |-> None]

load_deliveries(self) ==
    IF self.deliveries # None THEN Loaded(self, <<>>)
    ELSE IF csv.deliveries # FileNotFound
    THEN Loaded([self EXCEPT !.deliveries = csv.deliveries],
                <<Event("read_csv", "deliveries")>>)
    ELSE IF script.deliveries # ImportFails
    THEN Loaded([self EXCEPT !.deliveries = script.deliveries],
                <<Event("read_csv", "deliveries"), Event("import", "deliveries")>>)
    ELSE [self |-> self,
          log |-> <<Event("read_csv", "deliveries"), Event("import", "deliveries")>>,
          raised |-> ImportError("deliveries")]

\* A plausible slip: the test of the slot is missing, every call loads again
LoadGrantsAgain(self) ==
    IF csv.grants # FileNotFound
    THEN Loaded([self EXCEPT !.grants = csv.grants],
                <<Event("read_csv", "grants")>>)
    ELSE IF script.grants # ImportFails
    THEN Loaded([self EXCEPT !.grants = script.grants],
                <<Event("read_csv", "grants"), Event("import", "grants")>>)
    ELSE [self |-> self,
          log |-> <<Event("read_csv", "grants"), Event("import", "grants")>>,
          raised |-> ImportError("grants")]

load_grants(self) ==
    IF self.grants # None THEN Loaded(self, <<>>)
    ELSE IF csv.grants # FileNotFound
    THEN Loaded([self EXCEPT !.grants = csv.grants],
                <<Event("read_csv", "grants")>>)
    ELSE IF script.grants # ImportFails
    THEN Loaded([self EXCEPT !.grants = script.grants],
                <<Event("read_csv", "grants"), Event("import", "grants")>>)
    ELSE [self |-> self,
          log |-> <<Event("read_csv", "grants"), Event("import", "grants")>>,
          raised |-> ImportError("grants")]

\* A plausible slip: the collaborator is tried first, the file only if it fails
LoadLegacyGrantsFetchFirst(self) ==
    IF self.legacy_grants # None THEN Loaded(self, <<>>)
    ELSE IF script.legacy_grants # ImportFails
    THEN Loaded([self EXCEPT !.legacy_grants = script.legacy_grants],
                <<Event("import", "legacy_grants")>>)
    ELSE IF csv.legacy_grants # FileNotFound
    THEN Loaded([self EXCEPT !.legacy_grants = csv.legacy_grants],
                <<Event("import", "legacy_grants"), Event("read_csv", "legacy_grants")>>)
    ELSE [self |-> self,
          log |-> <<Event("import", "legacy_grants"), Event("read_csv", "legacy_grants")>>,
          raised |-> ImportError("legacy_grants")]

load_legacy_grants(self) ==
    IF self.legacy_grants # None THEN Loaded(self, <<>>)
    ELSE IF csv.legacy_grants # FileNotFound
    THEN Loaded([self EXCEPT !.legacy_grants = csv.legacy_grants],
                <<Event("read_csv", "legacy_grants")>>)
    ELSE IF script.legacy_grants # ImportFails
    THEN Loaded([self EXCEPT !.legacy_grants = script.legacy_grants],
                <<Event("read_csv", "legacy_grants"), Event("import", "legacy_grants")>>)
    ELSE [self |-> self,
          log |-> <<Event("read_csv", "legacy_grants"), Event("import", "legacy_grants")>>,
          raised |-> ImportError("legacy_grants")]

----------------------------------------------------------------------------
(* KornmoDataset: the three views *)

HosthveteIsZero(x) == x["hosthvete_areal"] = 0

\* A plausible slip: the comparison is inverted
KeepHosthvete(frame) ==
    DataFrame(frame.columns, SelectSeq(frame.rows, LAMBDA x : x["hosthvete_areal"] # 0))

\* deliveries[lambda x: x['hosthvete_areal'] == 0]: the rows that satisfy it, in
\* their order
ExcludeHosthvete(frame) == DataFrame(frame.columns, SelectSeq(frame.rows, HosthveteIsZero))

\* A plausible slip: the crop sums take the first value of the group
DeliveriesAggFirst ==
    [kommunenr |-> "first", gaardsnummer |-> "first", bruksnummer |-> "first",
     festenummer |-> "first",
     bygg_sum |-> "first", erter_sum |-> "first", havre_sum |-> "first",
     hvete_sum |-> "first", oljefro_sum |-> "first", rug_og_rughvete_sum |-> "first",
     fulldyrket |-> "mean", overflatedyrket |-> "mean", tilskudd_dyr |-> "mean",
     bygg_areal |-> "mean", havre_areal |-> "mean", rug_og_rughvete_areal |-> "mean",
     hvete_areal |-> "mean"]

\* The agg dict of get_deliveries
DeliveriesAgg ==
    [kommunenr |-> "first", gaardsnummer |-> "first", bruksnummer |-> "first",
     festenummer |-> "first",
     bygg_sum |-> "sum", erter_sum |-> "sum", havre_sum |-> "sum", hvete_sum |-> "sum",
     oljefro_sum |-> "sum", rug_og_rughvete_sum |-> "sum",
     fulldyrket |-> "mean", overflatedyrket |-> "mean", tilskudd_dyr |-> "mean",
     bygg_areal |-> "mean", havre_areal |-> "mean", rug_og_rughvete_areal |-> "mean",
     hvete_areal |-> "mean"]

\* A plausible slip: spring wheat is added to itself, rye to itself
CombineCropsSameColumn(data) ==
    Drop(AddColumn(AddColumn(data, "hvete_areal", "varhvete_areal", "varhvete_areal"),
                   "rug_og_rughvete_sum", "rug_sum", "rug_sum"),
         {"varhvete_areal", "hosthvete_areal", "rug_sum", "rughvete_sum"})

\* The wheat and rye columns combined, the old ones removed
CombineCrops(data) ==
    Drop(AddColumn(AddColumn(data, "hvete_areal", "varhvete_areal", "hosthvete_areal"),
                   "rug_og_rughvete_sum", "rug_sum", "rughvete_sum"),
         {"varhvete_areal", "hosthvete_areal", "rug_sum", "rughvete_sum"})

\* The body of get_deliveries once both tables are loaded, up to the aggregation
AggregatedFrame(self, exclude) ==
    LET dropped == Drop(self.deliveries, {"komnr"})
        kept == IF exclude THEN ExcludeHosthvete(dropped) ELSE dropped
        data == CombineCrops(Merge(kept, self.grants))
    IN  GroupByAgg(data, <<"year", "orgnr">>, DeliveriesAgg)

\* What get_deliveries returns once both tables are loaded
DeliveriesFrame(self, crops, exclude) ==
    _filter_crops(AggregatedFrame(self, exclude), crops)

\* A plausible slip: the komnr column and the rows are dropped in place, in
\* the cached table
GetDeliveriesInPlace(self, crops, exclude) ==
    LET d == load_deliveries(self)
        g == load_grants(d.self)
        dropped == Drop(g.self.deliveries, {"komnr"})
        kept == IF exclude THEN ExcludeHosthvete(dropped) ELSE dropped
    IN  IF d.raised # None THEN [self |-> d.self, log |-> d.log, result |-> d.raised]
        ELSE IF g.raised # None
        THEN [self |-> g.self, log |-> d.log \o g.log, result |-> g.raised]
        ELSE [self |-> [g.self EXCEPT !.deliveries = kept], log |-> d.log \o g.log,
              result |-> DeliveriesFrame(g.self, crops, exclude)]

get_deliveries(self, crops, exclude) ==
    LET d == load_deliveries(self)
        g == load_grants(d.self)
    IN  IF d.raised # None THEN [self |-> d.self, log |-> d.log, result |-> d.raised]
        ELSE IF g.raised # None
        THEN [self |-> g.self, log |-> d.log \o g.log, result |-> g.raised]
        ELSE [self |-> g.self, log |-> d.log \o g.log,
              result |-> DeliveriesFrame(g.self, crops, exclude)]

\* A plausible slip: the subsidy totals take the first value of the group
LegacyAggFirst ==
    [komnr |-> "mean",
     bygg_sum |-> "sum", erter_sum |-> "sum", havre_sum |-> "sum", hvete_sum |-> "sum",
     rug_og_rughvete_sum |-> "sum", oljefro_sum |-> "sum",
     areal_tilskudd |-> "first", husdyr_tilskudd |-> "first"]

\* The agg dict of get_legacy_data
LegacyAgg ==
    [komnr |-> "mean",
     bygg_sum |-> "sum", erter_sum |-> "sum", havre_sum |-> "sum", hvete_sum |-> "sum",
     rug_og_rughvete_sum |-> "sum", oljefro_sum |-> "sum",
     areal_tilskudd |-> "sum", husdyr_tilskudd |-> "sum"]

\* The body of get_legacy_data once both tables are loaded
LegacyFrame(self) ==
    LET dropped == Drop(self.deliveries, {"komnr"})
        merged == Merge(dropped, self.legacy_grants)
        data == Drop(AddColumn(merged, "rug_og_rughvete_sum", "rug_sum", "rughvete_sum"),
                     {"rug_sum", "rughvete_sum"})
    IN  GroupByAgg(data, <<"orgnr", "year">>, LegacyAgg)

get_legacy_data(self) ==
    LET d == load_deliveries(self)
        g == load_legacy_grants(d.self)
    IN  IF d.raised # None THEN [self |-> d.self, log |-> d.log, result |-> d.raised]
        ELSE IF g.raised # None
        THEN [self |-> g.self, log |-> d.log \o g.log, result |-> g.raised]
        ELSE [self |-> g.self, log |-> d.log \o g.log, result |-> LegacyFrame(g.self)]

columns_to_keep ==
    {"year", "orgnr", "bygg_sum", "hvete_sum", "havre_sum", "rug_og_rughvete_sum"}

Dict(items) == [type |-> "dict", items |-> items]

\* A plausible slip: the rows are grouped by farm
GroupByOrgnr(data) ==
    Dict([y \in {data.rows[i]["orgnr"] : i \in 1..Len(data.rows)} |->
            DataFrame(data.columns, SelectSeq(data.rows, LAMBDA r : r["orgnr"] = y))])

\* dict(list(data.groupby(by="year"))): under each year, the rows of that year
GroupByYear(data) ==
    Dict([y \in {data.rows[i]["year"] : i \in 1..Len(data.rows)} |->
            DataFrame(data.columns, SelectSeq(data.rows, LAMBDA r : r["year"] = y))])

get_historical_deliveries_by_year(self) ==
    LET l == get_legacy_data(self)
        legacy == Drop(l.result, {"komnr", "areal_tilskudd", "husdyr_tilskudd"})
        data == FilterItems(legacy, columns_to_keep)
    IN  IF l.result.type # "DataFrame" THEN l
        ELSE [self |-> l.self, log |-> l.log, result |-> GroupByYear(data)]

----------------------------------------------------------------------------
(* The inputs: the tables the cache files and the collaborators hold *)

\* The longest input table
MaxRows == 2

SeqsUpTo(S, n) == UNION {[1..k -> S] : k \in 0..n}

\* A delivery record of farm orgnr in a year; v picks its quantities.
\* v = 1 reports no winter wheat; v = 2 has areas 2 and 3 and bygg_sum 20.
Delivery(year, orgnr, v) ==
    [year |-> year, orgnr |-> orgnr, komnr |-> 300 + orgnr, kommunenr |-> 300 + orgnr,
     gaardsnummer |-> 10 + v, bruksnummer |-> v, festenummer |-> 0,
     bygg_sum |-> 10 * v, erter_sum |-> v, havre_sum |-> 2 * v, hvete_sum |-> 3 * v,
     oljefro_sum |-> v + 1, rug_sum |-> v, rughvete_sum |-> v + 2,
     bygg_areal |-> v, havre_areal |-> v + 1, rug_og_rughvete_areal |-> 2 * v,
     varhvete_areal |-> 2, hosthvete_areal |-> 3 * (v - 1)]

\* A grant record; fulldyrket is 0.4 for v = 1 and 0.6 for v = 2.
Grant(year, orgnr, v) ==
    [year |-> year, orgnr |-> orgnr,
     fulldyrket |-> 2 + 2 * v, overflatedyrket |-> v, tilskudd_dyr |-> v - 1]

\* A legacy grant record
LegacyGrant(year, orgnr, v) ==
    [year |-> year, orgnr |-> orgnr, komnr |-> 300 + orgnr + v,
     areal_tilskudd |-> 100 * v, husdyr_tilskudd |-> 50 * v]

DeliveryColumns == DOMAIN Delivery(0, 0, 0)
GrantColumns == DOMAIN Grant(0, 0, 0)
LegacyGrantColumns == DOMAIN LegacyGrant(0, 0, 0)

Variants == {1, 2}

\* Farm 1 delivers twice in 2020, once without winter wheat, and once in 2021;
\* farm 2 delivers in 2020
DeliveryRows ==
    {Delivery(2020, 1, v) : v \in Variants} \cup {Delivery(2021, 1, 2), Delivery(2020, 2, 1)}
\* Farm 1 has a grant record of each kind in 2020 and one in 2021
GrantRows == {Grant(2020, 1, v) : v \in Variants} \cup {Grant(2021, 1, 1)}
\* Farm 1 has two legacy records in 2020, with different municipality codes,
\* and one in 2021; farm 2 has one in 2020
LegacyGrantRows ==
    {LegacyGrant(2020, 1, v) : v \in Variants}
        \cup {LegacyGrant(2021, 1, 1), LegacyGrant(2020, 2, 1)}

DeliveryTables == {DataFrame(DeliveryColumns, r) : r \in SeqsUpTo(DeliveryRows, MaxRows)}

\* The delivery tables of farm 1 alone, which is the farm the grant records are of
FarmOneDeliveryTables == {d \in DeliveryTables : \A i \in 1..Len(d.rows) : d.rows[i].orgnr = 1}
GrantTables == {DataFrame(GrantColumns, r) : r \in SeqsUpTo(GrantRows, MaxRows)}
LegacyGrantTables ==
    {DataFrame(LegacyGrantColumns, r) : r \in SeqsUpTo(LegacyGrantRows, MaxRows)}

\* For the loads: what a cache file holds, and what its collaborator returns
FileDeliveries == DataFrame(DeliveryColumns, <<Delivery(2020, 1, 1), Delivery(2020, 1, 2)>>)
FetchedDeliveries == DataFrame(DeliveryColumns, <<Delivery(2021, 1, 2)>>)
FileGrants == DataFrame(GrantColumns, <<Grant(2020, 1, 1)>>)
FetchedGrants == DataFrame(GrantColumns, <<Grant(2020, 1, 2), Grant(2021, 1, 1)>>)
FileLegacyGrants == DataFrame(LegacyGrantColumns, <<LegacyGrant(2020, 1, 1)>>)
FetchedLegacyGrants ==
    DataFrame(LegacyGrantColumns, <<LegacyGrant(2021, 1, 1), LegacyGrant(2021, 1, 2)>>)

\* The crops arguments get_deliveries is called with: the default, one crop, and
\* two of which rug has no column in the aggregated frame
CropsArgs == {None, List(<<"bygg">>), List(<<"hvete", "rug">>)}

\* The crops arguments _filter_crops is tried on by itself: also no crop, and one
\* that is no crop of any frame
FilterCropsArgs == CropsArgs \cup {List(<<>>), List(<<"bygg", "potet">>)}

\* The frames _filter_crops is tried on by itself: any set of these columns
FilterColumns ==
    {"year", "orgnr", "bygg_sum", "bygg_areal", "hvete_sum", "rug_sum",
     "potet_areal", "sum", "bygg_summer", "_areal"}

\* The value in row i of column c of such a frame
FilterCell(i, c) == 10 * i + Len(c)

FilterFrames ==
    {DataFrame(cols, [i \in 1..n |-> [c \in cols |-> FilterCell(i, c)]]) :
        cols \in SUBSET FilterColumns, n \in 0..MaxRows}

----------------------------------------------------------------------------
(* The state machine *)

NoCall == [op |-> "none", frame |-> None, crops |-> None, exclude |-> FALSE]

Call(op, crops, exclude) == [op |-> op, frame |-> None, crops |-> crops, exclude |-> exclude]

\* KornmoDataset(): the three slots are None
Constructed ==
    /\ deliveries = None
    /\ grants = None
    /\ legacy_grants = None
    /\ call = NoCall
    /\ result = None
    /\ log = <<>>

\* Every combination of present and missing cache files, failing and working
\* collaborators
Init ==
    /\ Constructed
    /\ csv \in [deliveries : {FileNotFound, FileDeliveries},
                grants : {FileNotFound, FileGrants},
                legacy_grants : {FileNotFound, FileLegacyGrants}]
    /\ script \in [deliveries : {ImportFails, FetchedDeliveries},
                   grants : {ImportFails, FetchedGrants},
                   legacy_grants : {ImportFails, FetchedLegacyGrants}]

Returns(r, c) ==
    /\ deliveries' = r.self.deliveries
    /\ grants' = r.self.grants
    /\ legacy_grants' = r.self.legacy_grants
    /\ call' = c
    /\ result' = r.result
    /\ log' = r.log
    /\ UNCHANGED <<csv, script>>

GetDeliveries ==
    \E crops \in CropsArgs, exclude \in BOOLEAN :
        Returns(get_deliveries(Self, crops, exclude), Call("get_deliveries", crops, exclude))

GetLegacyData ==
    Returns(get_legacy_data(Self), Call("get_legacy_data", None, FALSE))

GetHistoricalDeliveriesByYear ==
    Returns(get_historical_deliveries_by_year(Self),
            Call("get_historical_deliveries_by_year", None, FALSE))

Next == GetDeliveries \/ GetLegacyData \/ GetHistoricalDeliveriesByYear

Spec == Init /\ [][Next]_vars

----------------------------------------------------------------------------
(* get_deliveries on every pair of a delivery table and a grant table *)

NoFiles == [deliveries |-> FileNotFound, grants |-> FileNotFound,
            legacy_grants |-> FileNotFound]
NoScripts == [deliveries |-> ImportFails, grants |-> ImportFails,
              legacy_grants |-> ImportFails]

InitDeliveries ==
    /\ Constructed
    /\ \E d \in FarmOneDeliveryTables, g \in GrantTables :
          csv = [NoFiles EXCEPT !.deliveries = d, !.grants = g]
    /\ script = NoScripts

SpecDeliveries == InitDeliveries /\ [][GetDeliveries]_vars

(* The legacy views on every pair of a delivery table and a legacy grant table *)

InitLegacy ==
    /\ Constructed
    /\ \E d \in DeliveryTables, g \in LegacyGrantTables :
          csv = [NoFiles EXCEPT !.deliveries = d, !.legacy_grants = g]
    /\ script = NoScripts

NextLegacy == GetLegacyData \/ GetHistoricalDeliveriesByYear

SpecLegacy == InitLegacy /\ [][NextLegacy]_vars

(* _filter_crops on every frame and crops argument ... *)

InitFilter ==
    /\ deliveries = None
    /\ grants = None
    /\ legacy_grants = None
    /\ csv = NoFiles
    /\ script = NoScripts
    /\ \E frame \in FilterFrames, crops \in FilterCropsArgs :
          call = [op |-> "none", frame |-> frame, crops |-> crops, exclude |-> FALSE]
    /\ result = None
    /\ log = <<>>

FilterCrops ==
    /\ call.op = "none"
    /\ call.frame # None
    /\ call' = [call EXCEPT !.op = "_filter_crops"]
    /\ result' = _filter_crops(call.frame, call.crops)
    /\ UNCHANGED <<deliveries, grants, legacy_grants, csv, script, log>>

\* ... and, beside it, get_deliveries, which ends with it
NextFilter == FilterCrops \/ GetDeliveries

SpecFilter == (InitFilter \/ InitDeliveries) /\ [][NextFilter]_vars

----------------------------------------------------------------------------
(* Loading *)

TableNames == {"deliveries", "grants", "legacy_grants"}

\* How many times the last call did `what` ("read_csv" or "import") for a table
Count(what, table) ==
    Cardinality({i \in DOMAIN log : log[i] = Event(what, table)})

\* The last call read the cache file of the table: it found the slot None
LoadedNow(table) == Count("read_csv", table) > 0

\* C1: each table is loaded at most once. Once a slot is not None, no later call
\* reads the table's cache file or invokes its fetch collaborator, and the slot
\* keeps its table.
C1_LoadedAtMostOnce ==
    [][\A t \in TableNames :
          Self[t] # None =>
             /\ Self'[t] = Self[t]
             /\ \A i \in DOMAIN log' : log'[i].table # t]_vars

\* A call that found deliveries and grants loaded and touched neither source
C1_Witness ==
    /\ call.op = "get_deliveries"
    /\ result.type = "DataFrame"
    /\ log = <<>>

FromFile(t) ==
    /\ csv[t] # FileNotFound
    /\ Self[t] = csv[t]
    /\ Count("read_csv", t) = 1
    /\ Count("import", t) = 0

FromCollaborator(t) ==
    /\ csv[t] = FileNotFound
    /\ script[t] # ImportFails
    /\ Self[t] = script[t]
    /\ Count("read_csv", t) = 1
    /\ Count("import", t) = 1

LoadFailed(t) ==
    /\ csv[t] = FileNotFound
    /\ script[t] = ImportFails
    /\ result = ImportError(t)
    /\ Self[t] = None
    /\ Count("read_csv", t) = 1
    /\ Count("import", t) = 1

Needs(op) ==
    IF op = "get_deliveries" THEN {"deliveries", "grants"}
    ELSE {"deliveries", "legacy_grants"}

\* C10: an operation changes the instance only by filling, from None, slots of
\* the tables it needs, with the source's table as it is (komnr still a column,
\* no row filtered out); a loaded table is never modified; and repeating a call
\* with the same arguments returns an equal table.
C10_OnlyFillsSlots ==
    [][/\ \A t \in TableNames :
            Self'[t] # Self[t] =>
               /\ t \in Needs(call'.op)
               /\ Self[t] = None
               /\ Self'[t] \in {csv[t], script[t]}
               /\ Self'[t].type = "DataFrame"
       /\ deliveries' # None => "komnr" \in deliveries'.columns
       /\ (call' = call /\ result.type \in {"DataFrame", "dict"}) => result' = result]_vars

\* get_deliveries(exclude_hosthvete=True) was repeated: the cached deliveries
\* still hold komnr and the row with winter wheat, which the result leaves out
C10_Witness ==
    /\ call.op = "get_deliveries"
    /\ call.exclude
    /\ log = <<>>
    /\ deliveries = FileDeliveries
    /\ legacy_grants = None
    /\ Len(result.rows) = 1
    /\ result.rows[1]["bygg_sum"] = 10

----------------------------------------------------------------------------
(* get_deliveries *)

\* The last call was get_deliveries and returned its table
Returned == call.op = "get_deliveries" /\ result.type = "DataFrame"

PairOf(r) == <<r["year"], r["orgnr"]>>

\* The rows of the cached deliveries that the last call merged with the grants
MergedDeliveries ==
    IF call.exclude
    THEN SelectSeq(deliveries.rows, LAMBDA d : d["hosthvete_areal"] = 0)
    ELSE deliveries.rows

DeliveriesOf(p) == SelectSeq(MergedDeliveries, LAMBDA d : PairOf(d) = p)
GrantsOf(p) == SelectSeq(grants.rows, LAMBDA g : PairOf(g) = p)

\* The pairs with at least one delivery row and a matching grant row
MatchedPairs ==
    {PairOf(MergedDeliveries[i]) : i \in 1..Len(MergedDeliveries)}
        \cap {PairOf(grants.rows[i]) : i \in 1..Len(grants.rows)}

OutputPairs == [i \in 1..Len(result.rows) |-> PairOf(result.rows[i])]

\* C3: the output of get_deliveries has exactly one row for each (year, orgnr)
\* pair that has a delivery row with a matching grant row, and no other row.
C3_OneRowPerMatchedPair ==
    Returned =>
        /\ Range(OutputPairs) = MatchedPairs
        /\ Len(result.rows) = Cardinality(MatchedPairs)

\* Two deliveries of different years, only one of them with a grant row
C3_Witness ==
    /\ Returned
    /\ ~call.exclude
    /\ Len(deliveries.rows) = 2
    /\ PairOf(deliveries.rows[1]) # PairOf(deliveries.rows[2])
    /\ Len(grants.rows) = 2
    /\ Len(result.rows) = 1

\* The sum of an output _sum column over delivery rows
DeliverySum(ds, c) ==
    IF c = "rug_og_rughvete_sum"
    THEN SumSeq(Column(ds, "rug_sum")) + SumSeq(Column(ds, "rughvete_sum"))
    ELSE SumSeq(Column(ds, c))

SumColumns == {c \in result.columns : EndsWith(c, "_sum")}

\* The mean of fulldyrket over grant rows
MeanFulldyrket(gs) == Fraction(SumSeq(Column(gs, "fulldyrket")), Len(gs))

\* C4 as stated: every _sum column of an output row is the sum of the column over
\* the delivery rows of its pair, and fulldyrket is the mean of the fulldyrket
\* values of the pair, whatever the number of delivery rows and grant rows.
C4_SumOverDeliveryRows ==
    Returned =>
        \A i \in 1..Len(result.rows) :
            LET p == PairOf(result.rows[i])
            IN  /\ \A c \in SumColumns :
                       result.rows[i][c] = DeliverySum(DeliveriesOf(p), c)
                /\ "fulldyrket" \in result.columns =>
                       result.rows[i]["fulldyrket"] = MeanFulldyrket(GrantsOf(p))

\* C4 amended: every _sum column of an output row is the sum of the column over
\* the delivery rows of its pair multiplied by the number of grant rows of the
\* pair (each delivery row is merged with each of them), and fulldyrket is the
\* mean of the fulldyrket values of the grant rows of the pair.
C4_SumOverMergedRows ==
    Returned =>
        \A i \in 1..Len(result.rows) :
            LET p == PairOf(result.rows[i])
            IN  /\ \A c \in SumColumns :
                       result.rows[i][c] =
                           Len(GrantsOf(p)) * DeliverySum(DeliveriesOf(p), c)
                /\ "fulldyrket" \in result.columns =>
                       result.rows[i]["fulldyrket"] = MeanFulldyrket(GrantsOf(p))

\* Deliveries of 10 and 20 for a pair with grant rows of 0.4 and 0.6
C4_Witness ==
    /\ Returned
    /\ call.crops = None
    /\ ~call.exclude
    /\ Len(result.rows) = 1
    /\ Column(DeliveriesOf(<<2020, 1>>), "bygg_sum") = <<10, 20>>
    /\ Column(GrantsOf(<<2020, 1>>), "fulldyrket") = <<4, 6>>
    /\ result.rows[1]["bygg_sum"] = 60
    /\ result.rows[1]["fulldyrket"] = Fraction(5, 1)

OldColumns == {"varhvete_areal", "hosthvete_areal", "rug_sum", "rughvete_sum"}

\* C5: for a pair with one delivery row and one matching grant row, hvete_areal
\* is varhvete_areal + hosthvete_areal of that row and rug_og_rughvete_sum is
\* rug_sum + rughvete_sum; the four old columns are never in the output.
C5_CombinedCrops ==
    Returned =>
        /\ result.columns \cap OldColumns = {}
        /\ \A i \in 1..Len(result.rows) :
              LET ds == DeliveriesOf(PairOf(result.rows[i]))
                  gs == GrantsOf(PairOf(result.rows[i]))
              IN  (Len(ds) = 1 /\ Len(gs) = 1) =>
                     /\ "hvete_areal" \in result.columns =>
                            result.rows[i]["hvete_areal"] =
                                Fraction(ds[1]["varhvete_areal"] + ds[1]["hosthvete_areal"], 1)
                     /\ "rug_og_rughvete_sum" \in result.columns =>
                            result.rows[i]["rug_og_rughvete_sum"] =
                                ds[1]["rug_sum"] + ds[1]["rughvete_sum"]

\* One delivery row with areas 2 and 3, one grant row, rug among the crops
C5_Witness ==
    /\ Returned
    /\ call.crops = List(<<"hvete", "rug">>)
    /\ Len(deliveries.rows) = 1
    /\ deliveries.rows[1]["varhvete_areal"] = 2
    /\ deliveries.rows[1]["hosthvete_areal"] = 3
    /\ Len(grants.rows) = 1
    /\ Len(result.rows) = 1
    /\ result.rows[1]["hvete_areal"] = Fraction(5, 1)

\* The cached deliveries without the rows that report winter wheat
WithoutHosthvete ==
    [Self EXCEPT !.deliveries =
        DataFrame(deliveries.columns,
                  SelectSeq(deliveries.rows, LAMBDA d : d["hosthvete_areal"] = 0))]

\* C6: with exclude_hosthvete=True the output is the output of
\* exclude_hosthvete=False on the delivery rows with hosthvete_areal = 0, so a
\* pair whose rows all have hosthvete_areal # 0 is absent; with
\* exclude_hosthvete=False every delivery row with a matching grant row counts.
C6_ExcludeHosthvete ==
    Returned =>
        /\ call.exclude =>
              /\ result = DeliveriesFrame(WithoutHosthvete, call.crops, FALSE)
              /\ \A i \in 1..Len(result.rows) :
                    \E j \in 1..Len(deliveries.rows) :
                        /\ PairOf(deliveries.rows[j]) = PairOf(result.rows[i])
                        /\ deliveries.rows[j]["hosthvete_areal"] = 0
        /\ ~call.exclude =>
              \A j \in 1..Len(deliveries.rows) :
                  GrantsOf(PairOf(deliveries.rows[j])) # <<>> =>
                      PairOf(deliveries.rows[j]) \in Range(OutputPairs)

\* A pair with a row without winter wheat (bygg_sum 10) and a row with it
\* (bygg_sum 20): the pair is aggregated from the first row alone
C6_Witness ==
    /\ Returned
    /\ call.exclude
    /\ call.crops = None
    /\ deliveries.rows = <<Delivery(2020, 1, 1), Delivery(2020, 1, 2)>>
    /\ grants.rows = <<Grant(2020, 1, 1), Grant(2021, 1, 1)>>
    /\ Len(result.rows) = 1
    /\ result.rows[1]["bygg_sum"] = 10

----------------------------------------------------------------------------
(* _filter_crops *)

RequestedCrops(crops) ==
    IF crops = None THEN {"havre", "hvete", "bygg", "rug_og_rughvete"}
    ELSE Range(crops.items)

\* out is frame with, of the columns that end in _sum or _areal, only those of
\* the requested crops kept; the rows and the other values are those of frame
IsFiltered(out, frame, crops) ==
    /\ out.columns =
          {c \in frame.columns : ~(EndsWith(c, "_sum") \/ EndsWith(c, "_areal"))}
             \cup {c \in frame.columns :
                      \E x \in RequestedCrops(crops) : c = x \o "_sum" \/ c = x \o "_areal"}
    /\ Len(out.rows) = Len(frame.rows)
    /\ \A i \in 1..Len(out.rows) :
          /\ DOMAIN out.rows[i] = out.columns
          /\ \A c \in out.columns : out.rows[i][c] = frame.rows[i][c]

\* C7: the column filter keeps exactly the columns that do not end in _sum or
\* _areal and the _sum and _areal columns of the requested crops that exist,
\* skips a requested crop with no column, and leaves rows and values as they
\* are; get_deliveries(crops=C) returns the filter of its aggregated frame.
C7_FilterCrops ==
    /\ call.op = "_filter_crops" => IsFiltered(result, call.frame, call.crops)
    /\ Returned => IsFiltered(result, AggregatedFrame(Self, call.exclude), call.crops)

\* bygg and potet requested of a frame with bygg_sum, hvete_sum and potet_areal
\* (potet has no _sum column): hvete_sum goes, the rest stays
C7_Witness ==
    /\ call.op = "_filter_crops"
    /\ call.crops = List(<<"bygg", "potet">>)
    /\ call.frame.columns = {"year", "sum", "bygg_summer", "bygg_sum", "hvete_sum", "potet_areal"}
    /\ Len(call.frame.rows) = 2
    /\ result.columns = {"year", "sum", "bygg_summer", "bygg_sum", "potet_areal"}

----------------------------------------------------------------------------
(* The legacy views *)

ReturnedLegacy == call.op = "get_legacy_data" /\ result.type = "DataFrame"

LegacyGrantsOf(p) == SelectSeq(legacy_grants.rows, LAMBDA g : PairOf(g) = p)

LegacyMatchedPairs ==
    {PairOf(deliveries.rows[i]) : i \in 1..Len(deliveries.rows)}
        \cap {PairOf(legacy_grants.rows[i]) : i \in 1..Len(legacy_grants.rows)}

LegacySumColumns ==
    {"bygg_sum", "erter_sum", "havre_sum", "hvete_sum", "oljefro_sum", "rug_og_rughvete_sum"}

LegacySubsidies == {"areal_tilskudd", "husdyr_tilskudd"}

\* What C9 says without stating how often a row counts
C9_Shape ==
    /\ Range(OutputPairs) = LegacyMatchedPairs
    /\ Len(result.rows) = Cardinality(LegacyMatchedPairs)
    /\ LegacySumColumns \cup LegacySubsidies \subseteq result.columns
    /\ result.columns \cap {"rug_sum", "rughvete_sum"} = {}

\* C9 as stated: one row per matched (orgnr, year) pair, in which every crop _sum
\* column (rug_og_rughvete_sum from rug_sum + rughvete_sum) is the sum over the
\* delivery rows of the pair. The subsidy totals are read the way that favours
\* the claim, as the sums over the merged rows of the pair.
C9_SumOverDeliveryRows ==
    ReturnedLegacy =>
        /\ C9_Shape
        /\ \A i \in 1..Len(result.rows) :
              LET ds == DeliveriesOf(PairOf(result.rows[i]))
                  ls == LegacyGrantsOf(PairOf(result.rows[i]))
              IN  /\ \A c \in LegacySumColumns :
                         result.rows[i][c] = DeliverySum(ds, c)
                  /\ \A c \in LegacySubsidies :
                         result.rows[i][c] = Len(ds) * SumSeq(Column(ls, c))

\* C9 amended: one row per matched (orgnr, year) pair, in which every crop _sum
\* column is the sum over the delivery rows of the pair multiplied by the
\* number of legacy grant rows of the pair, and each subsidy total is the sum
\* over the legacy grant rows of the pair multiplied by the number of delivery
\* rows of the pair: the sums run over the merged rows.
C9_SumOverMergedRows ==
    ReturnedLegacy =>
        /\ C9_Shape
        /\ \A i \in 1..Len(result.rows) :
              LET ds == DeliveriesOf(PairOf(result.rows[i]))
                  ls == LegacyGrantsOf(PairOf(result.rows[i]))
              IN  /\ \A c \in LegacySumColumns :
                         result.rows[i][c] = Len(ls) * DeliverySum(ds, c)
                  /\ \A c \in LegacySubsidies :
                         result.rows[i][c] = Len(ds) * SumSeq(Column(ls, c))

\* Two deliveries of a pair that has two legacy grant rows
C9_Witness ==
    /\ ReturnedLegacy
    /\ deliveries.rows = <<Delivery(2020, 1, 1), Delivery(2020, 1, 2)>>
    /\ legacy_grants.rows = <<LegacyGrant(2020, 1, 1), LegacyGrant(2020, 1, 2)>>
    /\ Len(result.rows) = 1
    /\ result.rows[1]["bygg_sum"] = 60
    /\ result.rows[1]["rug_og_rughvete_sum"] = 20
    /\ result.rows[1]["areal_tilskudd"] = 600

ReturnedByYear ==
    call.op = "get_historical_deliveries_by_year" /\ result.type = "dict"

KeptColumns == {"year", "orgnr", "bygg_sum", "hvete_sum", "havre_sum", "rug_og_rughvete_sum"}

Restricted(r) == [c \in KeptColumns |-> r[c]]

Occurrences(rws, r) == Cardinality({i \in 1..Len(rws) : rws[i] = r})

\* C8: the mapping has one entry per distinct year of the get_legacy_data()
\* table; every row under year y has year = y; and the rows of all its tables
\* are the rows of that table restricted to the kept columns, none lost, none
\* twice.
C8_PartitionByYear ==
    ReturnedByYear =>
        LET legacy == LegacyFrame(Self).rows
            kept == [i \in 1..Len(legacy) |-> Restricted(legacy[i])]
        IN  /\ DOMAIN result.items = {legacy[i]["year"] : i \in 1..Len(legacy)}
            /\ \A y \in DOMAIN result.items :
                  /\ result.items[y].columns = KeptColumns
                  /\ \A j \in 1..Len(result.items[y].rows) :
                        /\ result.items[y].rows[j]["year"] = y
                        /\ result.items[y].rows[j] \in Range(kept)
            /\ \A i \in 1..Len(kept) :
                  Occurrences(result.items[kept[i]["year"]].rows, kept[i])
                      = Occurrences(kept, kept[i])

\* Farm 1 in 2020 and in 2021: two tables of one row each
C8_Witness ==
    /\ ReturnedByYear
    /\ DOMAIN result.items = {2020, 2021}
    /\ Len(result.items[2020].rows) = 1
    /\ result.items[2021].rows[1]["orgnr"] = 1
    /\ Len(LegacyFrame(Self).rows) = 2

====
